---- MODULE Spec2Model ----
(***************************************************************************)
(* Model of haybale's symbolic-execution State (src/src/state.rs) and of   *)
(* the Project module index (src/src/project.rs).                          *)
(*                                                                         *)
(* The z3 solver is modelled as z3 keeps it: one vector of assertions and  *)
(* one vector of scope marks (the length of the assertion vector at each   *)
(* push); pop truncates the assertion vector to the last mark.             *)
(* Bitvector terms range over BVWidth-bit values, so that satisfiability   *)
(* is decided by enumeration.                                              *)
(*                                                                         *)
(* A panic is a terminal state: no operation is enabled after it.          *)
(* Variables whose name starts with h_ are history variables: they record  *)
(* the arguments and the order of the calls made so far, never read by the *)
(* modelled code.                                                          *)
(***************************************************************************)
EXTENDS Integers, Sequences, FiniteSets, TLC

\* ---------------------------------------------------------------- bounds
\* number of constraints the solver may hold, pending saved ones included
MaxAsserts == 3
\* length of the list handed to check_with_extra_constraints
MaxConds == 1
\* bit width of the bitvector sort (64 in the tests)
BVWidth == 2
\* number of modules of a Project
MaxModules == 3

VARIABLES
    solver,            \* State.solver: [assertions, scopes]
    varmap,            \* State.vars: VarMap
    backtrack_points,  \* State.backtrack_points
    ret,               \* the last State call and what it returned
    h_saved,           \* per live save: its arguments and the assertions before it
    h_explicit,        \* constraints put in force by assert / by a revert, per scope
    h_first,           \* the assertions before the first save
    h_outer,           \* constraints put in force outside every save since then
    h_dropped,         \* the constraints that the last call abandoned (a revert does)
    h_last,            \* per key, the sort and the term last inserted, whether
                       \* the insertion replaced a term of the other sort, and
                       \* how many of the pending saves were made before it
    h_run,             \* the reverts made since the last call that was not a revert
    h_unsat,           \* 0, or 1 + the number of pending saves when check first
                       \* returned false since the scope it was in was opened
    modules,           \* Project.modules
    pret               \* the last Project call and what it returned

vars == <<solver, varmap, backtrack_points, ret, h_saved, h_explicit,
          h_first, h_outer, h_dropped, h_last, h_run, h_unsat, modules, pret>>

state_vars == <<solver, varmap, backtrack_points, ret, h_saved, h_explicit,
                h_first, h_outer, h_dropped, h_last, h_run, h_unsat>>

project_vars == <<modules, pret>>

\* ------------------------------------------------------------- z3 terms
BoolTerm(op, var, k) == [sort |-> "Bool", op |-> op, var |-> var, k |-> k, w |-> 0]

BVTerm(op, var, k, w) == [sort |-> "BV", op |-> op, var |-> var, k |-> k, w |-> w]

\* Bool::from_bool
Bool_from_bool(b) == BoolTerm("lit", "-", IF b THEN 1 ELSE 0)

\* BV::from_u64: the value is truncated to the width
BV_from_u64(n, w) == BVTerm("lit", "-", n % (2 ^ w), w)

TrueLit == Bool_from_bool(TRUE)

FalseLit == Bool_from_bool(FALSE)

\* x >u 1 and x <u 2 over the bitvector constant x: each satisfiable, not both
XGt == BoolTerm("bvugt", "x", 1)

XLt == BoolTerm("bvult", "x", 2)

\* ctx.named_bool_const("bool")
BoolB == BoolTerm("const", "bool", 0)

\* ctx.named_bitvector_const("x", w), ("y", w)
BVx == BVTerm("const", "x", 0, BVWidth)

BVy == BVTerm("const", "y", 0, BVWidth)

\* the condition of a branch and its complement: what the interpreter saves
\* for the branch not taken and tries in a scratch scope
BranchConditions == {XGt, XLt}

\* the constraints the interpreter asserts
Constraints == BranchConditions \cup {FalseLit}

\* the 1-bit bitvector constant c
BVc == BVTerm("const", "c", 0, 1)

\* ------------------------------------------------------------ IR values
\* an inkwell value: its category, identity, constness, bit width and constant
IRValue(cat, id, is_const, bit_width, cval) ==
    [cat |-> cat, id |-> id, is_const |-> is_const, bit_width |-> bit_width, cval |-> cval]

\* function parameters: a non-constant integer and a non-constant i1
ValA == IRValue("IntValue", "%a", FALSE, BVWidth, 0)

ValC == IRValue("IntValue", "%c", FALSE, 1, 0)

Keys == {ValA, ValC}

\* the bindings the interpreter makes: a term of the key's type category
\* (an integer is a bitvector, an i1 is a 1-bit bitvector or a boolean)
BVBindings == {<<ValA, BVx>>, <<ValA, BVy>>, <<ValC, BVc>>}

BoolBindings == {<<ValC, BoolB>>}

ConstOperands ==
    { IRValue("IntValue", "const", TRUE, 1, 0),
      IRValue("IntValue", "const", TRUE, 1, 1),
      IRValue("IntValue", "const", TRUE, BVWidth, 3) }

FloatOperand == IRValue("FloatValue", "%f", FALSE, 0, 0)

\* what operand_to_bool accepts (an IntValue) and what operand_to_bv accepts
IntOperands == Keys \cup ConstOperands

Operands == IntOperands \cup {FloatOperand}

\* loop-free code: a block is never its own predecessor
BBs == {"bb1", "bb2"}

\* --------------------------------------------------------------- results
NoArg == "-"

Ret(op, arg, kind, val) == [op |-> op, arg |-> arg, kind |-> kind, val |-> val]

Ok(val) == [kind |-> "ok", val |-> val]

Panic(msg) == [kind |-> "panic", val |-> msg]

\* ------------------------------------------------------------- BVorBool
NoBinding == [tag |-> "None", term |-> NoArg]

BVorBool_BV(bv) == [tag |-> "BV", term |-> bv]

BVorBool_Bool(b) == [tag |-> "Bool", term |-> b]

as_bv(self) ==
    IF self.tag = "BV" THEN Ok(self.term) ELSE Panic("Can't convert to BV")

as_bool(self) ==
    IF self.tag = "Bool" THEN Ok(self.term) ELSE Panic("Can't convert to Bool")

BacktrackPoint_new(next_bb, prev_bb, constraint) ==
    [next_bb |-> next_bb, prev_bb |-> prev_bb, constraint |-> constraint]

\* ------------------------------------------------------------ the solver
RECURSIVE Flatten(_)
Flatten(ss) == IF ss = <<>> THEN <<>> ELSE Head(ss) \o Flatten(Tail(ss))

Front(s) == SubSeq(s, 1, Len(s) - 1)

Last(s) == s[Len(s)]

Range(s) == {s[i] : i \in 1..Len(s)}

Solver_new == [assertions |-> <<>>, scopes |-> <<>>]

solver_assert(s, cond) == [s EXCEPT !.assertions = Append(@, cond)]

solver_push(s) == [s EXCEPT !.scopes = Append(@, Len(s.assertions))]

\* pop(1); z3 rejects a pop without a scope and leaves the solver as it is
solver_pop(s) ==
    IF s.scopes = <<>> THEN s
    ELSE [assertions |-> SubSeq(s.assertions, 1, Last(s.scopes)),
          scopes |-> Front(s.scopes)]

\* the value of a boolean term under an assignment of x and of bool
Holds(c, x, b) ==
    CASE c.op = "lit" -> c.k # 0
      [] c.op = "bvugt" -> x > c.k
      [] c.op = "bvult" -> x < c.k
      [] c.op = "const" -> b

Sat(cs) ==
    \E x \in 0..(2 ^ BVWidth - 1), b \in BOOLEAN :
        \A i \in 1..Len(cs) : Holds(cs[i], x, b)

solver_check(s) == Sat(s.assertions)

RECURSIVE AssertAll(_, _)
AssertAll(s, conds) ==
    IF conds = <<>> THEN s
    ELSE AssertAll(solver_assert(s, Head(conds)), Tail(conds))

\* the lists of at most n constraints
RECURSIVE SeqsUpTo(_, _)
SeqsUpTo(S, n) ==
    IF n = 0 THEN {<<>>}
    ELSE LET shorter == SeqsUpTo(S, n - 1)
         IN shorter \cup {Append(q, e) : q \in shorter, e \in S}

CondLists == SeqsUpTo(BranchConditions, MaxConds)

\* ------------------------------------------------------------- the State
Running == ret.kind # "panic"

\* the solver has room for one more constraint beside the pending saved ones
Room == Len(solver.assertions) + Len(backtrack_points) < MaxAsserts

\* no revert since the last call of another kind
NoRun == [streak |-> 0, from |-> 0, before |-> {}, since |-> {}]

StateInit ==
    /\ solver = Solver_new
    /\ varmap = [k \in Keys |-> NoBinding]
    /\ backtrack_points = <<>>
    /\ ret = Ret("new", NoArg, "unit", NoArg)
    /\ h_saved = <<>>
    /\ h_explicit = << <<>> >>
    /\ h_first = [set |-> FALSE, assertions |-> <<>>]
    /\ h_outer = <<>>
    /\ h_dropped = <<>>
    /\ h_last = [k \in Keys |-> [sort |-> "None", other |-> FALSE, term |-> NoArg,
                                  level |-> 0]]
    /\ h_run = NoRun
    /\ h_unsat = 0

\* history of a revert: how many reverts in a row returned a pair, the number
\* of pending saves before the first of them, the keys inserted before the
\* save that the last one matches and the keys inserted since that save;
\* whether the scope of a failed check is gone
HistRevert ==
    /\ h_run' = IF ret'.kind = "some"
                THEN [streak |-> h_run.streak + 1,
                      from |-> IF h_run.streak = 0 THEN Len(h_saved) ELSE h_run.from,
                      before |-> {k \in Keys : /\ h_last[k].sort # "None"
                                               /\ h_last[k].level < Len(h_saved)},
                      since |-> {k \in Keys : /\ h_last[k].sort # "None"
                                              /\ h_last[k].level >= Len(h_saved)}]
                ELSE h_run
    /\ h_last' = IF h_saved # <<>>
                 THEN [k \in Keys |->
                          IF h_last[k].level >= Len(h_saved)
                          THEN [h_last[k] EXCEPT !.level = Len(h_saved) - 1]
                          ELSE h_last[k]]
                 ELSE h_last
    /\ h_unsat' = IF ret'.kind = "some" /\ Len(h_saved) < h_unsat THEN 0 ELSE h_unsat

\* history of an assertion made by the caller (assert, or the one of a revert)
HistAssert(expl, depth, cond) ==
    /\ h_explicit' = Append(Front(expl), Append(Last(expl), cond))
    /\ h_outer' = IF h_first.set /\ depth = 0 THEN Append(h_outer, cond) ELSE h_outer

assert(cond) ==
    /\ Running
    /\ Room
    /\ solver' = solver_assert(solver, cond)
    /\ ret' = Ret("assert", cond, "unit", NoArg)
    /\ HistAssert(h_explicit, Len(h_saved), cond)
    /\ h_dropped' = <<>>
    /\ h_run' = NoRun
    /\ h_unsat' = h_unsat
    /\ UNCHANGED <<varmap, backtrack_points, h_saved, h_first, h_last>>

\* as check, only the constraints of the innermost scope checked
check_top ==
    /\ Running
    /\ ret' = Ret("check", NoArg, "bool", Sat(SubSeq(solver.assertions,
                                                  IF solver.scopes = <<>> THEN 1
                                                  ELSE Last(solver.scopes) + 1,
                                                  Len(solver.assertions))))
    /\ h_dropped' = <<>>
    /\ h_run' = NoRun
    /\ h_unsat' = IF h_unsat = 0 /\ ~ret'.val THEN Len(h_saved) + 1 ELSE h_unsat
    /\ UNCHANGED <<solver, varmap, backtrack_points, h_saved, h_explicit,
                   h_first, h_outer, h_last>>

check ==
    /\ Running
    /\ ret' = Ret("check", NoArg, "bool", solver_check(solver))
    /\ h_dropped' = <<>>
    /\ h_run' = NoRun
    /\ h_unsat' = IF h_unsat = 0 /\ ~ret'.val THEN Len(h_saved) + 1 ELSE h_unsat
    /\ UNCHANGED <<solver, varmap, backtrack_points, h_saved, h_explicit,
                   h_first, h_outer, h_last>>

\* as check_with_extra_constraints, the scratch scope left in place
check_with_extra_constraints_nopop(conds) ==
    /\ Running
    /\ LET pushed == solver_push(solver)
           extra == AssertAll(pushed, conds)
           retval == solver_check(extra)
       IN /\ solver' = extra
          /\ ret' = Ret("check_with_extra_constraints", conds, "bool", retval)
    /\ h_dropped' = <<>>
    /\ h_run' = NoRun
    /\ h_unsat' = h_unsat
    /\ UNCHANGED <<varmap, backtrack_points, h_saved, h_explicit,
                   h_first, h_outer, h_last>>

check_with_extra_constraints(conds) ==
    /\ Running
    /\ LET pushed == solver_push(solver)
           extra == AssertAll(pushed, conds)
           retval == solver_check(extra)
       IN /\ solver' = solver_pop(extra)
          /\ ret' = Ret("check_with_extra_constraints", conds, "bool", retval)
    /\ h_dropped' = <<>>
    /\ h_run' = NoRun
    /\ h_unsat' = h_unsat
    /\ UNCHANGED <<varmap, backtrack_points, h_saved, h_explicit,
                   h_first, h_outer, h_last>>

\* as save_backtracking_point, without the solver scope
save_backtracking_point_nopush(next_bb, prev_bb, constraint) ==
    /\ Running
    /\ Room
    /\ solver' = solver
    /\ backtrack_points' =
           Append(backtrack_points, BacktrackPoint_new(next_bb, prev_bb, constraint))
    /\ ret' = Ret("save_backtracking_point", NoArg, "unit", NoArg)
    /\ h_saved' = Append(h_saved, [next_bb |-> next_bb, prev_bb |-> prev_bb,
                                   constraint |-> constraint,
                                   assertions |-> solver.assertions])
    /\ h_explicit' = Append(h_explicit, <<>>)
    /\ h_first' = IF h_first.set THEN h_first
                  ELSE [set |-> TRUE, assertions |-> solver.assertions]
    /\ h_dropped' = <<>>
    /\ h_run' = NoRun
    /\ h_unsat' = h_unsat
    /\ UNCHANGED <<varmap, h_outer, h_last>>

\* as save_backtracking_point, the constraint asserted at once in the new scope
save_backtracking_point_eager(next_bb, prev_bb, constraint) ==
    /\ Running
    /\ Room
    /\ solver' = solver_assert(solver_push(solver), constraint)
    /\ backtrack_points' =
           Append(backtrack_points, BacktrackPoint_new(next_bb, prev_bb, constraint))
    /\ ret' = Ret("save_backtracking_point", NoArg, "unit", NoArg)
    /\ h_saved' = Append(h_saved, [next_bb |-> next_bb, prev_bb |-> prev_bb,
                                   constraint |-> constraint,
                                   assertions |-> solver.assertions])
    /\ h_explicit' = Append(h_explicit, <<>>)
    /\ h_first' = IF h_first.set THEN h_first
                  ELSE [set |-> TRUE, assertions |-> solver.assertions]
    /\ h_dropped' = <<>>
    /\ h_run' = NoRun
    /\ h_unsat' = h_unsat
    /\ UNCHANGED <<varmap, h_outer, h_last>>

\* as save_backtracking_point, a nested save sharing the scope of the outer one
save_backtracking_point_flat(next_bb, prev_bb, constraint) ==
    /\ Running
    /\ Room
    /\ solver' = IF backtrack_points = <<>> THEN solver_push(solver) ELSE solver
    /\ backtrack_points' =
           Append(backtrack_points, BacktrackPoint_new(next_bb, prev_bb, constraint))
    /\ ret' = Ret("save_backtracking_point", NoArg, "unit", NoArg)
    /\ h_saved' = Append(h_saved, [next_bb |-> next_bb, prev_bb |-> prev_bb,
                                   constraint |-> constraint,
                                   assertions |-> solver.assertions])
    /\ h_explicit' = Append(h_explicit, <<>>)
    /\ h_first' = IF h_first.set THEN h_first
                  ELSE [set |-> TRUE, assertions |-> solver.assertions]
    /\ h_dropped' = <<>>
    /\ h_run' = NoRun
    /\ h_unsat' = h_unsat
    /\ UNCHANGED <<varmap, h_outer, h_last>>

save_backtracking_point(next_bb, prev_bb, constraint) ==
    /\ Running
    /\ Room
    /\ solver' = solver_push(solver)
    /\ backtrack_points' =
           Append(backtrack_points, BacktrackPoint_new(next_bb, prev_bb, constraint))
    /\ ret' = Ret("save_backtracking_point", NoArg, "unit", NoArg)
    /\ h_saved' = Append(h_saved, [next_bb |-> next_bb, prev_bb |-> prev_bb,
                                   constraint |-> constraint,
                                   assertions |-> solver.assertions])
    /\ h_explicit' = Append(h_explicit, <<>>)
    /\ h_first' = IF h_first.set THEN h_first
                  ELSE [set |-> TRUE, assertions |-> solver.assertions]
    /\ h_dropped' = <<>>
    /\ h_run' = NoRun
    /\ h_unsat' = h_unsat
    /\ UNCHANGED <<varmap, h_outer, h_last>>

\* as revert_to_backtracking_point, the solver scope left in place
revert_to_backtracking_point_nopop ==
    /\ Running
    /\ IF backtrack_points # <<>>
       THEN LET bp == Last(backtrack_points)
            IN /\ backtrack_points' = Front(backtrack_points)
               /\ solver' = solver_assert(solver, bp.constraint)
               /\ ret' = Ret("revert_to_backtracking_point", NoArg, "some",
                             <<bp.next_bb, bp.prev_bb>>)
       ELSE /\ ret' = Ret("revert_to_backtracking_point", NoArg, "none", NoArg)
            /\ UNCHANGED <<solver, backtrack_points>>
    /\ IF h_saved # <<>>
       THEN /\ h_saved' = Front(h_saved)
            /\ h_dropped' = Last(h_explicit)
            /\ HistAssert(Front(h_explicit), Len(h_saved) - 1, Last(h_saved).constraint)
       ELSE /\ h_dropped' = <<>>
            /\ UNCHANGED <<h_saved, h_explicit, h_outer>>
    /\ HistRevert
    /\ UNCHANGED <<varmap, h_first>>

\* as revert_to_backtracking_point, the constraint asserted before the pop
revert_to_backtracking_point_early ==
    /\ Running
    /\ IF backtrack_points # <<>>
       THEN LET bp == Last(backtrack_points)
            IN /\ backtrack_points' = Front(backtrack_points)
               /\ solver' = solver_pop(solver_assert(solver, bp.constraint))
               /\ ret' = Ret("revert_to_backtracking_point", NoArg, "some",
                             <<bp.next_bb, bp.prev_bb>>)
       ELSE /\ ret' = Ret("revert_to_backtracking_point", NoArg, "none", NoArg)
            /\ UNCHANGED <<solver, backtrack_points>>
    /\ IF h_saved # <<>>
       THEN /\ h_saved' = Front(h_saved)
            /\ h_dropped' = Last(h_explicit)
            /\ HistAssert(Front(h_explicit), Len(h_saved) - 1, Last(h_saved).constraint)
       ELSE /\ h_dropped' = <<>>
            /\ UNCHANGED <<h_saved, h_explicit, h_outer>>
    /\ HistRevert
    /\ UNCHANGED <<varmap, h_first>>

\* as revert_to_backtracking_point, the oldest backtrack point taken
revert_to_backtracking_point_fifo ==
    /\ Running
    /\ IF backtrack_points # <<>>
       THEN LET bp == Head(backtrack_points)
            IN /\ backtrack_points' = Tail(backtrack_points)
               /\ solver' = solver_assert(solver_pop(solver), bp.constraint)
               /\ ret' = Ret("revert_to_backtracking_point", NoArg, "some",
                             <<bp.next_bb, bp.prev_bb>>)
       ELSE /\ ret' = Ret("revert_to_backtracking_point", NoArg, "none", NoArg)
            /\ UNCHANGED <<solver, backtrack_points>>
    /\ IF h_saved # <<>>
       THEN /\ h_saved' = Front(h_saved)
            /\ h_dropped' = Last(h_explicit)
            /\ HistAssert(Front(h_explicit), Len(h_saved) - 1, Last(h_saved).constraint)
       ELSE /\ h_dropped' = <<>>
            /\ UNCHANGED <<h_saved, h_explicit, h_outer>>
    /\ HistRevert
    /\ UNCHANGED <<varmap, h_first>>

\* as revert_to_backtracking_point, the solver reset when no point is left
revert_to_backtracking_point_reset ==
    /\ Running
    /\ IF backtrack_points # <<>>
       THEN LET bp == Last(backtrack_points)
            IN /\ backtrack_points' = Front(backtrack_points)
               /\ solver' = solver_assert(solver_pop(solver), bp.constraint)
               /\ ret' = Ret("revert_to_backtracking_point", NoArg, "some",
                             <<bp.next_bb, bp.prev_bb>>)
       ELSE /\ ret' = Ret("revert_to_backtracking_point", NoArg, "none", NoArg)
            /\ solver' = Solver_new
            /\ UNCHANGED backtrack_points
    /\ IF h_saved # <<>>
       THEN /\ h_saved' = Front(h_saved)
            /\ h_dropped' = Last(h_explicit)
            /\ HistAssert(Front(h_explicit), Len(h_saved) - 1, Last(h_saved).constraint)
       ELSE /\ h_dropped' = <<>>
            /\ UNCHANGED <<h_saved, h_explicit, h_outer>>
    /\ HistRevert
    /\ UNCHANGED <<varmap, h_first>>

\* as revert_to_backtracking_point, the backtrack point read and left on the stack
revert_to_backtracking_point_peek ==
    /\ Running
    /\ IF backtrack_points # <<>>
       THEN LET bp == Last(backtrack_points)
            IN /\ backtrack_points' = backtrack_points
               /\ solver' = solver_assert(solver_pop(solver), bp.constraint)
               /\ ret' = Ret("revert_to_backtracking_point", NoArg, "some",
                             <<bp.next_bb, bp.prev_bb>>)
       ELSE /\ ret' = Ret("revert_to_backtracking_point", NoArg, "none", NoArg)
            /\ UNCHANGED <<solver, backtrack_points>>
    /\ IF h_saved # <<>>
       THEN /\ h_saved' = Front(h_saved)
            /\ h_dropped' = Last(h_explicit)
            /\ HistAssert(Front(h_explicit), Len(h_saved) - 1, Last(h_saved).constraint)
       ELSE /\ h_dropped' = <<>>
            /\ UNCHANGED <<h_saved, h_explicit, h_outer>>
    /\ HistRevert
    /\ UNCHANGED <<varmap, h_first>>

\* as revert_to_backtracking_point, the variable environment rolled back
revert_to_backtracking_point_rollback ==
    /\ Running
    /\ IF backtrack_points # <<>>
       THEN LET bp == Last(backtrack_points)
            IN /\ backtrack_points' = Front(backtrack_points)
               /\ solver' = solver_assert(solver_pop(solver), bp.constraint)
               /\ varmap' = [k \in Keys |-> NoBinding]
               /\ ret' = Ret("revert_to_backtracking_point", NoArg, "some",
                             <<bp.next_bb, bp.prev_bb>>)
       ELSE /\ ret' = Ret("revert_to_backtracking_point", NoArg, "none", NoArg)
            /\ UNCHANGED <<solver, varmap, backtrack_points>>
    /\ IF h_saved # <<>>
       THEN /\ h_saved' = Front(h_saved)
            /\ h_dropped' = Last(h_explicit)
            /\ HistAssert(Front(h_explicit), Len(h_saved) - 1, Last(h_saved).constraint)
       ELSE /\ h_dropped' = <<>>
            /\ UNCHANGED <<h_saved, h_explicit, h_outer>>
    /\ HistRevert
    /\ UNCHANGED h_first

revert_to_backtracking_point ==
    /\ Running
    /\ IF backtrack_points # <<>>
       THEN LET bp == Last(backtrack_points)
            IN /\ backtrack_points' = Front(backtrack_points)
               /\ solver' = solver_assert(solver_pop(solver), bp.constraint)
               /\ ret' = Ret("revert_to_backtracking_point", NoArg, "some",
                             <<bp.next_bb, bp.prev_bb>>)
       ELSE /\ ret' = Ret("revert_to_backtracking_point", NoArg, "none", NoArg)
            /\ UNCHANGED <<solver, backtrack_points>>
    /\ IF h_saved # <<>>
       THEN /\ h_saved' = Front(h_saved)
            /\ h_dropped' = Last(h_explicit)
            /\ HistAssert(Front(h_explicit), Len(h_saved) - 1, Last(h_saved).constraint)
       ELSE /\ h_dropped' = <<>>
            /\ UNCHANGED <<h_saved, h_explicit, h_outer>>
    /\ HistRevert
    /\ UNCHANGED <<varmap, h_first>>

\* ------------------------------------------------- variable environment
\* as add_bv_var, the map holding the new binding only
add_bv_var_only(v, bv) ==
    /\ Running
    /\ varmap' = [k \in Keys |-> IF k = v THEN BVorBool_BV(bv) ELSE NoBinding]
    /\ ret' = Ret("add_bv_var", v, "unit", NoArg)
    /\ h_last' = [h_last EXCEPT ![v] = [sort |-> "BV", other |-> @.sort = "Bool", term |-> bv,
                                       level |-> Len(h_saved)]]
    /\ h_dropped' = <<>>
    /\ h_run' = NoRun
    /\ h_unsat' = h_unsat
    /\ UNCHANGED <<solver, backtrack_points, h_saved, h_explicit, h_first, h_outer>>

add_bv_var(v, bv) ==
    /\ Running
    /\ varmap' = [varmap EXCEPT ![v] = BVorBool_BV(bv)]
    /\ ret' = Ret("add_bv_var", v, "unit", NoArg)
    /\ h_last' = [h_last EXCEPT ![v] = [sort |-> "BV", other |-> @.sort = "Bool", term |-> bv,
                                       level |-> Len(h_saved)]]
    /\ h_dropped' = <<>>
    /\ h_run' = NoRun
    /\ h_unsat' = h_unsat
    /\ UNCHANGED <<solver, backtrack_points, h_saved, h_explicit, h_first, h_outer>>

\* as add_bool_var, an existing binding kept
add_bool_var_keep(v, b) ==
    /\ Running
    /\ varmap' = IF varmap[v] = NoBinding
                 THEN [varmap EXCEPT ![v] = BVorBool_Bool(b)]
                 ELSE varmap
    /\ ret' = Ret("add_bool_var", v, "unit", NoArg)
    /\ h_last' = [h_last EXCEPT ![v] = [sort |-> "Bool", other |-> @.sort = "BV", term |-> b,
                                       level |-> Len(h_saved)]]
    /\ h_dropped' = <<>>
    /\ h_run' = NoRun
    /\ h_unsat' = h_unsat
    /\ UNCHANGED <<solver, backtrack_points, h_saved, h_explicit, h_first, h_outer>>

add_bool_var(v, b) ==
    /\ Running
    /\ varmap' = [varmap EXCEPT ![v] = BVorBool_Bool(b)]
    /\ ret' = Ret("add_bool_var", v, "unit", NoArg)
    /\ h_last' = [h_last EXCEPT ![v] = [sort |-> "Bool", other |-> @.sort = "BV", term |-> b,
                                       level |-> Len(h_saved)]]
    /\ h_dropped' = <<>>
    /\ h_run' = NoRun
    /\ h_unsat' = h_unsat
    /\ UNCHANGED <<solver, backtrack_points, h_saved, h_explicit, h_first, h_outer>>

\* &self methods: what they return in the current state
\* as lookup_bv_var, a fresh bitvector constant made up for a missing key
lookup_bv_var_lazy(v) ==
    IF varmap[v] = NoBinding THEN Ok(BVTerm("const", v.id, 0, v.bit_width))
    ELSE as_bv(varmap[v])

lookup_bv_var(v) ==
    IF varmap[v] = NoBinding THEN Panic("Failed to find value")
    ELSE as_bv(varmap[v])

lookup_bool_var(v) ==
    IF varmap[v] = NoBinding THEN Panic("Failed to find value")
    ELSE as_bool(varmap[v])

\* as operand_to_bv, the value and the width of the literal exchanged
operand_to_bv_swapped(v) ==
    IF v.cat = "IntValue"
    THEN IF v.is_const
         THEN Ok(BV_from_u64(v.bit_width, v.cval))
         ELSE lookup_bv_var(v)
    ELSE Panic("unimplemented")

operand_to_bv(v) ==
    IF v.cat = "IntValue"
    THEN IF v.is_const
         THEN Ok(BV_from_u64(v.cval, v.bit_width))
         ELSE lookup_bv_var(v)
    ELSE Panic("unimplemented")

\* as operand_to_bool, the width not asserted
operand_to_bool_anywidth(v) ==
    IF v.is_const
    THEN Ok(Bool_from_bool(v.cval # 0))
    ELSE lookup_bool_var(v)

operand_to_bool(v) ==
    IF v.bit_width # 1 THEN Panic("assertion failed")
    ELSE IF v.is_const
         THEN Ok(Bool_from_bool(v.cval # 0))
         ELSE lookup_bool_var(v)

\* a call of a &self method: the state is left as it is
Returns(op, v, result) ==
    /\ Running
    /\ ret' = Ret(op, v, IF result.kind = "ok" THEN "term" ELSE "panic", result.val)
    /\ h_dropped' = <<>>
    /\ h_run' = NoRun
    /\ h_unsat' = h_unsat
    /\ UNCHANGED <<solver, varmap, backtrack_points, h_saved, h_explicit,
                   h_first, h_outer, h_last>>

call_lookup_bv_var(v) == Returns("lookup_bv_var", v, lookup_bv_var(v))

call_lookup_bool_var(v) == Returns("lookup_bool_var", v, lookup_bool_var(v))

call_operand_to_bv(v) == Returns("operand_to_bv", v, operand_to_bv(v))

call_operand_to_bool(v) == Returns("operand_to_bool", v, operand_to_bool(v))

\* ---------------------------------------------------------- the Project
None == [kind |-> "none", val |-> NoArg]

Some(val) == [kind |-> "some", val |-> val]

Err(msg) == [kind |-> "err", val |-> msg]

\* a function of a module: its name and the file that defines it
Function(name, file) == [name |-> name, file |-> file]

\* a global variable and a global alias of a module
GlobalVariable(name, file) == [name |-> name, file |-> file]

GlobalAlias(name, file) == [name |-> name, file |-> file]

\* llvm_ir's Type::StructType
StructType(element_types, is_packed) ==
    [element_types |-> element_types, is_packed |-> is_packed]

\* the definitions of the named structs S and U met in the bitcode files
StructX == StructType(<<"i32">>, FALSE)

StructY == StructType(<<"i64", "i8">>, FALSE)

StructEmpty == StructType(<<>>, FALSE)

StructEmptyPacked == StructType(<<>>, TRUE)

\* the definition of the named struct T, the same wherever it is defined
StructZ == StructType(<<"i8">>, FALSE)

\* one module: llvm_ir's Module, the fields that the Project reads
Module(name, functions, global_vars, global_aliases, named_struct_types) ==
    [name |-> name, functions |-> functions, global_vars |-> global_vars,
     global_aliases |-> global_aliases, named_struct_types |-> named_struct_types]

Paths == {"basic.bc", "loop.bc", "extra.bc", "empty.bc", "bad.bc"}

FuncNames == {"no_args_zero", "one_arg", "while_loop", "helper", "absent"}

StructNames == {"S", "T", "U"}

\* llvm_ir's Module::from_bc_path: the module of a bitcode file, or the parse
\* error; extra.bc defines while_loop as loop.bc does
Module_from_bc_path(path) ==
    CASE path = "basic.bc" ->
             Ok(Module(path,
                       <<Function("no_args_zero", path), Function("one_arg", path)>>,
                       <<GlobalVariable("g", path)>>,
                       <<>>,
                       << <<"T", Some(StructZ)>>, <<"S", Some(StructX)>> >>))
      [] path = "loop.bc" ->
             Ok(Module(path,
                       <<Function("while_loop", path)>>,
                       <<GlobalVariable("g", path), GlobalVariable("h", path)>>,
                       <<GlobalAlias("a", path)>>,
                       << <<"S", None>>, <<"U", Some(StructEmptyPacked)>> >>))
      [] path = "extra.bc" ->
             Ok(Module(path,
                       <<Function("helper", path), Function("while_loop", path)>>,
                       <<>>,
                       <<GlobalAlias("b", path), GlobalAlias("a", path)>>,
                       << <<"S", Some(StructY)>>, <<"T", Some(StructZ)>> >>))
      [] path = "empty.bc" ->
             Ok(Module(path, <<>>, <<>>, <<>>,
                       << <<"U", Some(StructEmpty)>>, <<"S", Some(StructEmpty)>> >>))
      [] OTHER -> Err("Failed to parse")

\* llvm_ir's Module::get_func_by_name: the first function of that name
Module_get_func_by_name(module, name) ==
    LET found == {i \in 1..Len(module.functions) : module.functions[i].name = name}
    IN IF found = {} THEN None
       ELSE Some(module.functions[CHOOSE i \in found : \A k \in found : i <= k])

\* paths.map(Module::from_bc_path).collect::<Result<Vec<_>, _>>()
RECURSIVE from_bc_paths(_)
from_bc_paths(paths) ==
    IF paths = <<>> THEN Ok(<<>>)
    ELSE LET module == Module_from_bc_path(Head(paths))
             rest == from_bc_paths(Tail(paths))
         IN IF module.kind # "ok" THEN module
            ELSE IF rest.kind # "ok" THEN rest
            ELSE Ok(<<module.val>> \o rest.val)

\* the scan of get_func_by_name from module i on, retval being the candidate
RECURSIVE ScanFuncs(_, _, _, _)
ScanFuncs(ms, i, name, retval) ==
    IF i > Len(ms) THEN retval
    ELSE LET f == Module_get_func_by_name(ms[i], name)
         IN IF f.kind = "none" THEN ScanFuncs(ms, i + 1, name, retval)
            ELSE IF retval.kind = "none"
                 THEN ScanFuncs(ms, i + 1, name, Some(<<f.val, ms[i]>>))
                 ELSE Panic("Multiple functions found")

\* as get_func_by_name, the scan stopped at the first match
get_func_by_name_first(ms, name) ==
    LET found == {i \in 1..Len(ms) : Module_get_func_by_name(ms[i], name).kind = "some"}
    IN IF found = {} THEN None
       ELSE LET i == CHOOSE i \in found : \A k \in found : i <= k
            IN Some(<<Module_get_func_by_name(ms[i], name).val, ms[i]>>)

\* as get_func_by_name, the scan started after the first module
get_func_by_name_skip(ms, name) == ScanFuncs(ms, 2, name, None)

get_func_by_name(ms, name) == ScanFuncs(ms, 1, name, None)

\* module.named_struct_types.iter().find(|&(n, _)| n == name).map(|(_, t)| t):
\* the optional definition declared under that name, if the module declares it
Module_find_struct(module, name) ==
    LET found == {i \in 1..Len(module.named_struct_types) :
                      module.named_struct_types[i][1] = name}
    IN IF found = {} THEN None
       ELSE Some(module.named_struct_types[CHOOSE i \in found : \A k \in found : i <= k][2])

\* one turn of the loop of get_named_struct_type_by_name: the candidate after
\* the module, or the panic; as MatchStruct, the empty-struct arms left out
MatchStruct_strict(retval, t, module) ==
    IF retval.kind = "none" THEN Some(<<t, module>>)
    ELSE IF t.kind = "none" THEN retval
    ELSE IF retval.val[1].kind = "none" THEN Some(<<t, module>>)
    ELSE IF retval.val[1].val = t.val THEN retval
    ELSE Panic("Multiple named struct types found")

\* as MatchStruct, the two empty-struct arms in the other order
MatchStruct_newfirst(retval, t, module) ==
    IF retval.kind = "none" THEN Some(<<t, module>>)
    ELSE IF t.kind = "none" THEN retval
    ELSE IF retval.val[1].kind = "none" THEN Some(<<t, module>>)
    ELSE LET def1 == retval.val[1].val
             def2 == t.val
         IN IF def1 = def2 THEN retval
            ELSE IF def2.element_types = <<>> THEN retval
            ELSE IF def1.element_types = <<>> THEN Some(<<t, module>>)
            ELSE Panic("Multiple named struct types found")

\* as MatchStruct, an opaque definition met later replaces the candidate
MatchStruct_latest(retval, t, module) ==
    IF retval.kind = "none" THEN Some(<<t, module>>)
    ELSE IF t.kind = "none" THEN Some(<<t, module>>)
    ELSE IF retval.val[1].kind = "none" THEN Some(<<t, module>>)
    ELSE LET def1 == retval.val[1].val
             def2 == t.val
         IN IF def1 = def2 THEN retval
            ELSE IF def1.element_types = <<>> THEN Some(<<t, module>>)
            ELSE IF def2.element_types = <<>> THEN retval
            ELSE Panic("Multiple named struct types found")

\* as MatchStruct, an empty candidate not giving way to the definition met
MatchStruct_oneway(retval, t, module) ==
    IF retval.kind = "none" THEN Some(<<t, module>>)
    ELSE IF t.kind = "none" THEN retval
    ELSE IF retval.val[1].kind = "none" THEN Some(<<t, module>>)
    ELSE LET def1 == retval.val[1].val
             def2 == t.val
         IN IF def1 = def2 THEN retval
            ELSE IF def2.element_types = <<>> THEN retval
            ELSE Panic("Multiple named struct types found")

MatchStruct(retval, t, module) ==
    IF retval.kind = "none" THEN Some(<<t, module>>)
    ELSE IF t.kind = "none" THEN retval
    ELSE IF retval.val[1].kind = "none" THEN Some(<<t, module>>)
    ELSE LET def1 == retval.val[1].val
             def2 == t.val
         IN IF def1 = def2 THEN retval
            ELSE IF def1.element_types = <<>> THEN Some(<<t, module>>)
            ELSE IF def2.element_types = <<>> THEN retval
            ELSE Panic("Multiple named struct types found")

RECURSIVE ScanStructs(_, _, _, _)
ScanStructs(ms, i, name, retval) ==
    IF i > Len(ms) THEN retval
    ELSE LET t == Module_find_struct(ms[i], name)
         IN IF t.kind = "none" THEN ScanStructs(ms, i + 1, name, retval)
            ELSE LET next == MatchStruct(retval, t.val, ms[i])
                 IN IF next.kind = "panic" THEN next
                    ELSE ScanStructs(ms, i + 1, name, next)

get_named_struct_type_by_name(ms, name) == ScanStructs(ms, 1, name, None)

\* seq.iter().zip(std::iter::repeat(m)): every item with the module
ZipRepeat(seq, m) == [k \in 1..Len(seq) |-> <<seq[k], m>>]

\* as all_functions, the modules taken last first
all_functions_lifo(ms) ==
    Flatten([i \in 1..Len(ms) |->
                ZipRepeat(ms[Len(ms) + 1 - i].functions, ms[Len(ms) + 1 - i])])

all_functions(ms) ==
    Flatten([i \in 1..Len(ms) |-> ZipRepeat(ms[i].functions, ms[i])])

all_global_vars(ms) ==
    Flatten([i \in 1..Len(ms) |-> ZipRepeat(ms[i].global_vars, ms[i])])

all_global_aliases(ms) ==
    Flatten([i \in 1..Len(ms) |-> ZipRepeat(ms[i].global_aliases, ms[i])])

\* triples (name, optional definition, module)
all_named_struct_types(ms) ==
    Flatten([i \in 1..Len(ms) |->
                [k \in 1..Len(ms[i].named_struct_types) |->
                    <<ms[i].named_struct_types[k][1],
                      ms[i].named_struct_types[k][2],
                      ms[i]>>]])

active_module_names(ms) == [i \in 1..Len(ms) |-> ms[i].name]

\* Path::extension and Path::file_stem of the paths met
Path_extension(path) ==
    CASE path \in {"basic.bc", "loop.bc", "extra.bc", "empty.bc", "bad.bc", "sub.bc"} ->
             Some("bc")
      [] path = "notes.txt" -> Some("txt")
      [] OTHER -> None

Path_file_stem(path) ==
    CASE path = "basic.bc" -> "basic"
      [] path = "loop.bc" -> "loop"
      [] path = "extra.bc" -> "extra"
      [] path = "empty.bc" -> "empty"
      [] path = "bad.bc" -> "bad"
      [] path = "sub.bc" -> "sub"
      [] path = "notes.txt" -> "notes"
      [] OTHER -> path

\* one item of ReadDir: io::Result<DirEntry>. An Ok entry has a path and the
\* outcome of file_type(): a file, a directory, or an I/O error
DirEntry(path, file_type) == [status |-> "ok", path |-> path, file_type |-> file_type]

ErrEntry == [status |-> "err", path |-> NoArg, file_type |-> NoArg]

\* the scans made: a directory and the extension looked for
DirScans ==
    {<<"bcfiles", "bc">>, <<"bcfiles", "txt">>, <<"partial", "bc">>,
     <<"stale", "bc">>, <<"broken", "bc">>, <<"missing", "bc">>}

\* the exclude closures: |_| false, and |path| path.file_stem().unwrap() == "basic"
Excludes == {"nothing", "basic"}

exclude(closure, path) == closure = "basic" /\ Path_file_stem(path) = "basic"

\* path.read_dir(): the entries in the order the system gives them
read_dir(path) ==
    CASE path = "bcfiles" ->
             Ok(<<DirEntry("basic.bc", "file"), DirEntry("notes.txt", "file"),
                  DirEntry("sub.bc", "dir"), DirEntry("README", "file"),
                  DirEntry("loop.bc", "file")>>)
      [] path = "partial" -> Ok(<<DirEntry("loop.bc", "file"), ErrEntry>>)
      [] path = "stale" ->
             Ok(<<DirEntry("loop.bc", "file"), DirEntry("notes.txt", "err"),
                  DirEntry("extra.bc", "err")>>)
      [] path = "broken" -> Ok(<<DirEntry("loop.bc", "file"), DirEntry("bad.bc", "file")>>)
      [] OTHER -> Err("No such file or directory")

entry_is_dir(entry) ==
    IF entry.status = "ok"
    THEN IF entry.file_type = "err" THEN None ELSE Some(entry.file_type = "dir")
    ELSE None

\* Iterator::collect into a Result: the first error, or all the values
RECURSIVE collect(_)
collect(results) ==
    IF results = <<>> THEN Ok(<<>>)
    ELSE IF Head(results).kind # "ok" THEN Head(results)
    ELSE LET rest == collect(Tail(results))
         IN IF rest.kind # "ok" THEN rest ELSE Ok(<<Head(results).val>> \o rest.val)

modules_from_bc_dir(path, extn, closure) ==
    LET entries == read_dir(path)
    IN IF entries.kind # "ok" THEN entries
       ELSE LET NotDir(entry) ==
                    ~(entry_is_dir(entry).kind = "some" /\ entry_is_dir(entry).val)
                paths == [i \in 1..Len(SelectSeq(entries.val, NotDir)) |->
                             LET entry == SelectSeq(entries.val, NotDir)[i]
                             IN IF entry.status = "ok" THEN Ok(entry.path)
                                ELSE Err("I/O error")]
                Wanted(p) ==
                    IF p.kind = "ok"
                    THEN /\ Path_extension(p.val).kind = "some"
                         /\ Path_extension(p.val).val = extn
                         /\ ~exclude(closure, p.val)
                    ELSE TRUE
            IN collect([i \in 1..Len(SelectSeq(paths, Wanted)) |->
                           LET p == SelectSeq(paths, Wanted)[i]
                           IN IF p.kind = "ok" THEN Module_from_bc_path(p.val) ELSE p])

from_bc_dir(path, extn) == modules_from_bc_dir(path, extn, "nothing")

from_bc_dir_with_blacklist(path, extn, closure) == modules_from_bc_dir(path, extn, closure)

\* the constructors from a directory
DirConstructors == {"from_bc_dir", "from_bc_dir_with_blacklist"}

\* there is a Project (the constructor did not fail) and no call panicked
ProjectRunning ==
    /\ pret.kind # "panic"
    /\ ~(pret.op \in DirConstructors /\ pret.kind = "err")

add_bc_path(path) ==
    /\ ProjectRunning
    /\ Len(modules) < MaxModules
    /\ LET module == Module_from_bc_path(path)
       IN IF module.kind = "ok"
          THEN /\ modules' = Append(modules, module.val)
               /\ pret' = Ret("add_bc_path", path, "ok", NoArg)
          ELSE /\ modules' = modules
               /\ pret' = Ret("add_bc_path", path, "err", module.val)

\* as add_bc_dir, every module pushed as soon as it is parsed
add_bc_dir_eager(path, extn) ==
    /\ ProjectRunning
    /\ LET entries == read_dir(path)
           found == IF entries.kind = "ok" THEN entries.val ELSE <<>>
           Parses(entry) ==
               /\ entry.status = "ok"
               /\ entry.file_type # "dir"
               /\ Path_extension(entry.path).kind = "some"
               /\ Path_extension(entry.path).val = extn
               /\ Module_from_bc_path(entry.path).kind = "ok"
           pushed == [i \in 1..Len(SelectSeq(found, Parses)) |->
                         Module_from_bc_path(SelectSeq(found, Parses)[i].path).val]
           result == modules_from_bc_dir(path, extn, "nothing")
       IN /\ Len(modules) + Len(pushed) <= MaxModules
          /\ modules' = modules \o pushed
          /\ pret' = Ret("add_bc_dir", <<path, extn, "nothing">>,
                         IF result.kind = "ok" THEN "ok" ELSE "err",
                         IF result.kind = "ok" THEN NoArg ELSE result.val)

add_bc_dir(path, extn) ==
    /\ ProjectRunning
    /\ LET result == modules_from_bc_dir(path, extn, "nothing")
       IN IF result.kind = "ok"
          THEN /\ Len(modules) + Len(result.val) <= MaxModules
               /\ modules' = modules \o result.val
               /\ pret' = Ret("add_bc_dir", <<path, extn, "nothing">>, "ok", NoArg)
          ELSE /\ modules' = modules
               /\ pret' = Ret("add_bc_dir", <<path, extn, "nothing">>, "err", result.val)

add_bc_dir_with_blacklist(path, extn, closure) ==
    /\ ProjectRunning
    /\ LET result == modules_from_bc_dir(path, extn, closure)
       IN IF result.kind = "ok"
          THEN /\ Len(modules) + Len(result.val) <= MaxModules
               /\ modules' = modules \o result.val
               /\ pret' = Ret("add_bc_dir_with_blacklist", <<path, extn, closure>>,
                              "ok", NoArg)
          ELSE /\ modules' = modules
               /\ pret' = Ret("add_bc_dir_with_blacklist", <<path, extn, closure>>,
                              "err", result.val)

call_get_func_by_name(name) ==
    /\ ProjectRunning
    /\ LET result == get_func_by_name(modules, name)
       IN pret' = Ret("get_func_by_name", name, result.kind, result.val)
    /\ UNCHANGED modules

call_get_named_struct_type_by_name(name) ==
    /\ ProjectRunning
    /\ LET result == get_named_struct_type_by_name(modules, name)
       IN pret' = Ret("get_named_struct_type_by_name", name, result.kind, result.val)
    /\ UNCHANGED modules

\* a call of an enumeration, drained: the items in the order yielded
Yields(op, items) ==
    /\ ProjectRunning
    /\ pret' = Ret(op, NoArg, "items", items)
    /\ UNCHANGED modules

call_all_functions == Yields("all_functions", all_functions(modules))

call_all_global_vars == Yields("all_global_vars", all_global_vars(modules))

call_all_global_aliases == Yields("all_global_aliases", all_global_aliases(modules))

call_all_named_struct_types ==
    Yields("all_named_struct_types", all_named_struct_types(modules))

call_active_module_names == Yields("active_module_names", active_module_names(modules))

\* ------------------------------------------------------ specifications
Init ==
    /\ StateInit
    /\ modules = <<>>
    /\ pret = Ret("new", NoArg, "unit", NoArg)

\* the solver session and the backtracking discipline
Next ==
    \/ \E cond \in Constraints : assert(cond) /\ UNCHANGED project_vars
    \/ check /\ UNCHANGED project_vars
    \/ \E conds \in CondLists : check_with_extra_constraints(conds) /\ UNCHANGED project_vars
    \/ \E next_bb \in BBs, prev_bb \in BBs, constraint \in BranchConditions :
           /\ next_bb # prev_bb
           /\ save_backtracking_point(next_bb, prev_bb, constraint)
           /\ UNCHANGED project_vars
    \/ revert_to_backtracking_point /\ UNCHANGED project_vars

Spec == Init /\ [][Next]_vars

\* the variable environment, across the saves and reverts of one branch
EnvNext ==
    \/ \E p \in BVBindings : add_bv_var(p[1], p[2]) /\ UNCHANGED project_vars
    \/ \E p \in BoolBindings : add_bool_var(p[1], p[2]) /\ UNCHANGED project_vars
    \/ \E v \in Keys : call_lookup_bv_var(v) /\ UNCHANGED project_vars
    \/ \E v \in Keys : call_lookup_bool_var(v) /\ UNCHANGED project_vars
    \/ \E v \in Operands : call_operand_to_bv(v) /\ UNCHANGED project_vars
    \/ \E v \in IntOperands : call_operand_to_bool(v) /\ UNCHANGED project_vars
    \/ save_backtracking_point("bb2", "bb1", XGt) /\ UNCHANGED project_vars
    \/ revert_to_backtracking_point /\ UNCHANGED project_vars

EnvSpec == Init /\ [][EnvNext]_vars

\* a Project made by from_bc_path or from_bc_paths, then added to and queried
ProjectInit ==
    /\ StateInit
    /\ \/ /\ \E paths \in SeqsUpTo(Paths, 1) :
                 /\ from_bc_paths(paths).kind = "ok"
                 /\ modules = from_bc_paths(paths).val
          /\ pret = Ret("new", NoArg, "unit", NoArg)
       \/ \E scan \in DirScans :
              LET path == scan[1]
                  extn == scan[2]
                  result == from_bc_dir(path, extn)
              IN /\ modules = IF result.kind = "ok" THEN result.val ELSE <<>>
                 /\ pret = Ret("from_bc_dir", <<path, extn, "nothing">>,
                               IF result.kind = "ok" THEN "ok" ELSE "err",
                               IF result.kind = "ok" THEN NoArg ELSE result.val)
       \/ \E scan \in DirScans, closure \in Excludes :
              LET path == scan[1]
                  extn == scan[2]
                  result == from_bc_dir_with_blacklist(path, extn, closure)
              IN /\ modules = IF result.kind = "ok" THEN result.val ELSE <<>>
                 /\ pret = Ret("from_bc_dir_with_blacklist", <<path, extn, closure>>,
                               IF result.kind = "ok" THEN "ok" ELSE "err",
                               IF result.kind = "ok" THEN NoArg ELSE result.val)

ProjectNext ==
    \/ \E path \in Paths : add_bc_path(path) /\ UNCHANGED state_vars
    \/ \E scan \in DirScans : add_bc_dir(scan[1], scan[2]) /\ UNCHANGED state_vars
    \/ \E scan \in DirScans :
           add_bc_dir_with_blacklist(scan[1], scan[2], "basic") /\ UNCHANGED state_vars
    \/ \E name \in FuncNames : call_get_func_by_name(name) /\ UNCHANGED state_vars
    \/ \E name \in StructNames :
           call_get_named_struct_type_by_name(name) /\ UNCHANGED state_vars
    \/ call_all_functions /\ UNCHANGED state_vars
    \/ call_all_global_vars /\ UNCHANGED state_vars
    \/ call_all_global_aliases /\ UNCHANGED state_vars
    \/ call_all_named_struct_types /\ UNCHANGED state_vars
    \/ call_active_module_names /\ UNCHANGED state_vars

ProjectSpec == ProjectInit /\ [][ProjectNext]_vars

\* ------------------------------------------------------------- claims
IsRevert(r) == r.op = "revert_to_backtracking_point"

IsCheckWithExtra(r) == r.op = "check_with_extra_constraints"

\* C1: in every reachable state the number of solver scopes pushed and not
\* yet popped equals the length of the backtrack-point stack.
ScopesMatchBacktrackStack == Len(solver.scopes) = Len(backtrack_points)

\* C1 witness: a scratch check ran while a backtrack point was pending
ScratchCheckUnderSave ==
    /\ backtrack_points # <<>>
    /\ IsCheckWithExtra(ret)
    /\ ret.arg # <<>>

\* the saves and the successful reverts made so far are as many, one at least
Balanced == h_first.set /\ h_saved = <<>>

\* C2 as stated: after any sequence of State operations ending with as many
\* reverts as saves, the solver's constraint set is exactly what it was
\* before the first save.
BalancedRestoresConstraintSet ==
    Balanced => Range(solver.assertions) = Range(h_first.assertions)

\* C2 amended: after as many reverts as saves the solver has no pending scope
\* and holds the constraints it held before the first save followed by the
\* ones put in force at the outermost scope since then (the saved constraint
\* of every backtrack point reverted to there, and every constraint asserted
\* outside a save/revert pair), and nothing else.
BalancedKeepsOutermostConstraints ==
    Balanced => /\ solver.scopes = <<>>
                /\ solver.assertions = h_first.assertions \o h_outer

\* C2 witness: the last save was reverted, and its constraint is a new one
BalancedAfterRevert ==
    /\ Balanced
    /\ IsRevert(ret) /\ ret.kind = "some"
    /\ h_first.assertions # <<>>
    /\ Last(solver.assertions) \notin Range(h_first.assertions)

SavedConstraintAbsent ==
    \A i \in 1..Len(h_saved) : h_saved[i].constraint \notin Range(solver.assertions)

\* check and check_with_extra_constraints answer for the constraints put in
\* force by assert and by the reverts made so far, and for nothing else
ChecksIgnoreSaved ==
    /\ ret.op = "check" => ret.val = Sat(Flatten(h_explicit))
    /\ IsCheckWithExtra(ret) => ret.val = Sat(Flatten(h_explicit) \o ret.arg)

\* C3 as stated: the constraint passed to save_backtracking_point is not in
\* the solver's constraint set at any point between that save and the revert
\* that pops its backtrack point, and check results in that interval are the
\* same as if the constraint had never been supplied.
SavedConstraintNeverInSolver ==
    h_saved # <<>> => SavedConstraintAbsent /\ ChecksIgnoreSaved

\* C3 amended: between a save and the revert that pops its backtrack point,
\* the solver holds exactly the constraints put in force by assert and by
\* earlier reverts (the saved constraint is in the set only if one of those
\* put it there), and check results are the same as if the constraint had
\* never been supplied.
SavedConstraintDeferred ==
    h_saved # <<>> => /\ solver.assertions = Flatten(h_explicit)
                      /\ ChecksIgnoreSaved

\* C3 witness: a scratch check succeeds that the pending constraint would fail
ScratchCheckContradictsSaved ==
    /\ h_saved # <<>>
    /\ IsCheckWithExtra(ret) /\ ret.val = TRUE /\ ret.arg # <<>>
    /\ ~Sat(Append(solver.assertions \o ret.arg, Last(h_saved).constraint))

\* C4: a revert on a non-empty stack leaves the constraints that were in
\* force before the matching save, removes those asserted since, and adds
\* the saved constraint at the scope that is current after the pop.
RevertStep ==
    (IsRevert(ret') /\ h_saved # <<>>) =>
        /\ solver'.assertions =
               Append(Last(h_saved).assertions, Last(h_saved).constraint)
        /\ solver'.scopes = Front(solver.scopes)
        /\ \A j \in 1..Len(solver'.scopes) :
               solver'.scopes[j] < Len(solver'.assertions)

RevertRestoresThenAsserts == [][RevertStep]_vars

\* C4 witness: a revert kept x >u 1, abandoned false and put x <u 2 in force
RevertKeptAndDropped ==
    /\ IsRevert(ret) /\ ret.kind = "some"
    /\ h_dropped = <<FalseLit>>
    /\ solver.assertions = <<XGt, XLt>>

\* C5: check_with_extra_constraints leaves the constraints and the scopes of
\* the solver as they were, so that a check answers as before the call.
ScratchStep ==
    IsCheckWithExtra(ret') =>
        /\ solver' = solver
        /\ solver_check(solver') = solver_check(solver)

ScratchLeavesSolver == [][ScratchStep]_vars

\* C5 witness: the extra constraints made the scratch check fail, not the state
ScratchUnsatStateSat ==
    /\ IsCheckWithExtra(ret) /\ ret.val = FALSE /\ ret.arg # <<>>
    /\ solver.assertions # <<>>
    /\ solver_check(solver)

\* C6: a successful revert returns (next_bb, prev_bb), in that order, of the
\* most recently saved backtrack point not yet reverted to.
RevertReturnStep ==
    (IsRevert(ret') /\ h_saved # <<>>) =>
        /\ ret'.kind = "some"
        /\ ret'.val = <<Last(h_saved).next_bb, Last(h_saved).prev_bb>>

RevertIsLIFO == [][RevertReturnStep]_vars

\* C6 witness: the inner of two different backtrack points was returned
RevertReturnedInner ==
    /\ IsRevert(ret) /\ ret.kind = "some"
    /\ h_saved # <<>>
    /\ ret.val # <<Last(h_saved).next_bb, Last(h_saved).prev_bb>>
    /\ ret.val[1] # ret.val[2]

\* C7: a revert on an empty backtrack stack returns absence and leaves the
\* solver, the stack and the variable environment as they were.
EmptyRevertStep ==
    (IsRevert(ret') /\ h_saved = <<>>) =>
        /\ ret'.kind = "none"
        /\ solver' = solver
        /\ backtrack_points' = backtrack_points
        /\ varmap' = varmap

EmptyRevertChangesNothing == [][EmptyRevertStep]_vars

\* C7 witness: absence was returned with constraints and bindings in place
EmptyRevertWithState ==
    /\ IsRevert(ret) /\ ret.kind = "none"
    /\ solver.assertions # <<>>
    /\ \E k \in Keys : varmap[k] # NoBinding

\* C8: after the most recent insertion under a key was one of add_bv_var,
\* lookup_bool_var and operand_to_bool of that key are fatal; after it was
\* one of add_bool_var, lookup_bv_var and operand_to_bv of it are fatal.
SortDiscipline ==
    /\ (ret.op \in {"lookup_bool_var", "operand_to_bool"} /\ ret.arg \in Keys)
           => (h_last[ret.arg].sort = "BV" => ret.kind = "panic")
    /\ (ret.op \in {"lookup_bv_var", "operand_to_bv"} /\ ret.arg \in Keys)
           => (h_last[ret.arg].sort = "Bool" => ret.kind = "panic")

\* C8 witness: a key bound as a bitvector, bound again as a boolean, then
\* looked up as a bitvector
LookupAfterRebinding ==
    /\ ret.op = "lookup_bv_var" /\ ret.kind = "panic"
    /\ h_last[ret.arg].sort = "Bool" /\ h_last[ret.arg].other

\* C9: lookup_bv_var and lookup_bool_var of a key never inserted are fatal
\* and leave the variable environment as it was, saves and reverts or not.
MissingLookupStep ==
    (ret'.op \in {"lookup_bv_var", "lookup_bool_var"} /\ h_last[ret'.arg].sort = "None") =>
        /\ ret'.kind = "panic"
        /\ varmap' = varmap
        /\ varmap'[ret'.arg] = NoBinding

MissingLookupIsFatal == [][MissingLookupStep]_vars

\* C9 witness: a missing key looked up after a revert, under a pending save,
\* another key being bound
MissingLookupAfterRevert ==
    /\ ret.op = "lookup_bv_var" /\ ret.kind = "panic"
    /\ h_last[ret.arg].sort = "None"
    /\ \E k \in Keys : varmap[k] # NoBinding
    /\ solver.assertions # <<>>
    /\ backtrack_points # <<>>

\* C15: operand_to_bool of a constant of bit-width 1 is the literal false
\* when the zero-extended constant is 0 and the literal true otherwise; of an
\* operand of any other bit-width it is fatal by the width assertion, before
\* the environment is looked up or a literal is made.
OperandToBoolByWidth ==
    ret.op = "operand_to_bool" =>
        /\ (ret.arg.bit_width = 1 /\ ret.arg.is_const) =>
               /\ ret.kind = "term"
               /\ ret.val = Bool_from_bool(ret.arg.cval # 0)
               /\ ret.val = IF ret.arg.cval = 0 THEN FalseLit ELSE TrueLit
        /\ ret.arg.bit_width # 1 =>
               /\ ret.kind = "panic"
               /\ ret.val = "assertion failed"

\* C15 witness: a variable operand wider than one bit that the environment
\* does not bind: the width assertion failed, not the lookup
WideOperandToBoolUnbound ==
    /\ ret.op = "operand_to_bool" /\ ret.kind = "panic"
    /\ ret.arg.bit_width # 1
    /\ ~ret.arg.is_const
    /\ varmap[ret.arg] = NoBinding
    /\ \E k \in Keys : varmap[k] # NoBinding

\* the models of the solver: a value for each bitvector constant
BVModels == [{"x", "y", "c"} -> 0..(2 ^ BVWidth - 1)]

\* the value of a bitvector term in a model
BVValue(t, model) == IF t.op = "lit" THEN t.k ELSE model[t.var] % (2 ^ t.w)

\* C16: operand_to_bv of a constant integer operand of bit-width w and
\* zero-extended value n is a bitvector literal of width w whose value in
\* every model is n mod 2^w, whatever the variable environment and the
\* constraint set hold, and it leaves both as they were.
ConstOperandToBVStep ==
    (ret'.op = "operand_to_bv" /\ ret'.arg.cat = "IntValue" /\ ret'.arg.is_const) =>
        /\ ret'.kind = "term"
        /\ ret'.val.sort = "BV"
        /\ ret'.val.op = "lit"
        /\ ret'.val.w = ret'.arg.bit_width
        /\ \A model \in BVModels :
               BVValue(ret'.val, model) = ret'.arg.cval % (2 ^ ret'.arg.bit_width)
        /\ varmap' = varmap
        /\ solver' = solver
        /\ backtrack_points' = backtrack_points

ConstOperandToBVIsLiteral == [][ConstOperandToBVStep]_vars

\* C16 witness: a constant as wide as the variables, converted while the
\* environment binds a key and the solver holds a constraint
ConstOperandToBVUnderState ==
    /\ ret.op = "operand_to_bv" /\ ret.kind = "term"
    /\ ret.arg.is_const
    /\ ret.arg.bit_width = BVWidth
    /\ ret.val = BV_from_u64(3, BVWidth)
    /\ \E k \in Keys : varmap[k] # NoBinding
    /\ solver.assertions # <<>>

\* the module defines a function of that name
Defines(module, name) ==
    \E i \in 1..Len(module.functions) : module.functions[i].name = name

\* C10: when two modules of the Project define a function of the same name,
\* get_func_by_name of that name is fatal, wherever the two modules are.
DuplicateFunctionIsFatal ==
    (/\ pret.op = "get_func_by_name"
     /\ \E i, j \in 1..Len(modules) :
            i < j /\ Defines(modules[i], pret.arg) /\ Defines(modules[j], pret.arg))
        => pret.kind = "panic"

\* C10 witness: the first and the third module define the name, not the second
DuplicateAroundOtherModule ==
    /\ pret.op = "get_func_by_name" /\ pret.kind = "panic"
    /\ Len(modules) = 3
    /\ Defines(modules[1], pret.arg)
    /\ ~Defines(modules[2], pret.arg)
    /\ Defines(modules[3], pret.arg)
    /\ modules[1] # modules[3]

\* the indexes of the modules that define a function of that name
Definers(name) == {i \in 1..Len(modules) : Defines(modules[i], name)}

\* C11: get_func_by_name returns the function and the module that owns it
\* when exactly one module defines the name, wherever that module is in the
\* list, and returns absence when no module defines it.
UniqueFunctionIsFound ==
    pret.op = "get_func_by_name" =>
        /\ Definers(pret.arg) = {} => pret.kind = "none"
        /\ \A i \in Definers(pret.arg) :
               Definers(pret.arg) = {i} =>
                   /\ pret.kind = "some"
                   /\ pret.val[1].name = pret.arg
                   /\ \E k \in 1..Len(modules[i].functions) :
                          pret.val[1] = modules[i].functions[k]
                   /\ pret.val[2] = modules[i]

\* C11 witness: the only definer is the last of three modules, and the
\* function is not the first of its module
UniqueFunctionInLastModule ==
    /\ pret.op = "get_func_by_name" /\ pret.kind = "some"
    /\ Len(modules) = 3
    /\ Definers(pret.arg) = {3}
    /\ modules[3].functions[1].name # pret.arg

IsStructLookup(r) == r.op = "get_named_struct_type_by_name"

\* the indexes of the modules that declare a struct type of that name
Declarers(name) ==
    {i \in 1..Len(modules) : Module_find_struct(modules[i], name).kind = "some"}

\* the optional definition that module i declares under that name
Declared(i, name) == Module_find_struct(modules[i], name).val

\* two optional definitions are both opaque or the same concrete definition
SameDef(a, b) == a.kind = b.kind /\ (a.kind = "some" => a.val = b.val)

\* the lookup returned that optional definition with that module as owner
Returned(t, module) ==
    /\ pret.kind = "some"
    /\ SameDef(pret.val[1], t)
    /\ pret.val[2] = module

\* C12: when get_named_struct_type_by_name returns, it returns no result at
\* all exactly when no module declares the name, and a result with an absent
\* (opaque) definition exactly when every declaration of the name is opaque.
OpaqueOnlyIfAllOpaque ==
    (IsStructLookup(pret) /\ pret.kind # "panic") =>
        /\ pret.kind = "none" <=> Declarers(pret.arg) = {}
        /\ pret.kind = "some" =>
               (pret.val[1].kind = "none"
                    <=> \A i \in Declarers(pret.arg) : Declared(i, pret.arg).kind = "none")

\* C12 witness: a concrete definition was returned although the modules
\* before and after its module declare the name opaque
ConcreteBetweenOpaque ==
    /\ IsStructLookup(pret) /\ pret.kind = "some"
    /\ Len(modules) = 3
    /\ Declarers(pret.arg) = {1, 2, 3}
    /\ Declared(1, pret.arg).kind = "none"
    /\ Declared(2, pret.arg).kind = "some"
    /\ Declared(3, pret.arg).kind = "none"
    /\ Returned(Declared(2, pret.arg), modules[2])

\* the candidate of the scan when it reaches the last module: the result of
\* the scan of the modules before it
Candidate == get_named_struct_type_by_name(Front(modules), pret.arg)

\* what the last module declares under the name looked up
Met == Module_find_struct(Last(modules), pret.arg)

\* the scan reaches the last module without a panic, with a concrete
\* candidate, and the last module has a concrete definition
ConcreteMeetsConcrete ==
    /\ IsStructLookup(pret)
    /\ modules # <<>>
    /\ Candidate.kind = "some" /\ Candidate.val[1].kind = "some"
    /\ Met.kind = "some" /\ Met.val.kind = "some"

\* C13: the lookup is fatal when the scan meets a concrete definition that
\* is not equal to the concrete candidate and neither has an empty element
\* list; a module that declares nothing, an opaque definition on either
\* side, two equal definitions, or an empty element list on either side never
\* make it fatal.
ConflictIsFatal ==
    (IsStructLookup(pret) /\ modules # <<>> /\ Candidate.kind # "panic") =>
        (pret.kind = "panic"
            <=> /\ ConcreteMeetsConcrete
                /\ Candidate.val[1].val # Met.val.val
                /\ Candidate.val[1].val.element_types # <<>>
                /\ Met.val.val.element_types # <<>>)

\* C13 witness: an empty definition, a concrete one and a different concrete
\* one: only the third module makes the lookup fatal
ConflictAfterEmpty ==
    /\ IsStructLookup(pret) /\ pret.kind = "panic"
    /\ Len(modules) = 3
    /\ Declarers(pret.arg) = {1, 2, 3}
    /\ SameDef(Declared(1, pret.arg), Some(StructEmpty))
    /\ SameDef(Declared(2, pret.arg), Some(StructX))
    /\ SameDef(Declared(3, pret.arg), Some(StructY))
    /\ Candidate.kind = "some"
    /\ SameDef(Candidate.val[1], Some(StructX))
    /\ Candidate.val[2] = modules[2]

\* C14: when the concrete candidate and the concrete definition met differ,
\* the definition met and its module replace the candidate if the
\* candidate's element list is empty; otherwise the candidate and its module
\* are kept if the element list of the definition met is empty.
EmptyStructGivesWay ==
    (ConcreteMeetsConcrete /\ Candidate.val[1].val # Met.val.val) =>
        /\ Candidate.val[1].val.element_types = <<>> =>
               Returned(Met.val, Last(modules))
        /\ (/\ Candidate.val[1].val.element_types # <<>>
            /\ Met.val.val.element_types = <<>>) =>
               Returned(Candidate.val[1], Candidate.val[2])

\* C14 witness: the concrete definition of the second module replaced the
\* empty one of the first, and was kept when the third module had an empty
\* one again
EmptyReplacedThenKept ==
    /\ IsStructLookup(pret) /\ pret.kind = "some"
    /\ Len(modules) = 3
    /\ Declarers(pret.arg) = {1, 2, 3}
    /\ SameDef(Declared(1, pret.arg), Some(StructEmpty))
    /\ SameDef(Declared(2, pret.arg), Some(StructX))
    /\ SameDef(Declared(3, pret.arg), Some(StructEmpty))
    /\ Returned(Some(StructX), modules[2])

EnumerationOps ==
    {"all_functions", "all_global_vars", "all_global_aliases",
     "all_named_struct_types", "active_module_names"}

\* module i's own list for the enumeration: its functions, global variables,
\* global aliases or named struct types, or just its name
OwnItems(op, i) ==
    CASE op = "all_functions" -> modules[i].functions
      [] op = "all_global_vars" -> modules[i].global_vars
      [] op = "all_global_aliases" -> modules[i].global_aliases
      [] op = "all_named_struct_types" -> modules[i].named_struct_types
      [] op = "active_module_names" -> <<modules[i].name>>

\* how many items the modules before module i contribute
RECURSIVE GroupStart(_, _)
GroupStart(op, i) ==
    IF i = 1 THEN 0 ELSE GroupStart(op, i - 1) + Len(OwnItems(op, i - 1))

\* the item yielded is item k of module i, with module i
YieldedFrom(op, item, i, k) ==
    CASE op = "all_named_struct_types" ->
             /\ item[1] = OwnItems(op, i)[k][1]
             /\ SameDef(item[2], OwnItems(op, i)[k][2])
             /\ item[3] = modules[i]
      [] op = "active_module_names" -> item = modules[i].name
      [] OTHER -> item[1] = OwnItems(op, i)[k] /\ item[2] = modules[i]

\* C17: every enumeration yields one group of items per module, the groups
\* in module insertion order and each group in the module's own order, and
\* nothing else; every function, global variable and global alias comes in a
\* pair with its module, every struct type in a triple with its module, and
\* active_module_names yields each module's name.
EnumerationsFollowModules ==
    pret.op \in EnumerationOps =>
        /\ Len(pret.val) = GroupStart(pret.op, Len(modules) + 1)
        /\ \A i \in 1..Len(modules) :
               \A k \in 1..Len(OwnItems(pret.op, i)) :
                   YieldedFrom(pret.op, pret.val[GroupStart(pret.op, i) + k], i, k)

\* C17 witness: the functions of three different modules, two of them with
\* two functions each
FunctionsOfThreeModules ==
    /\ pret.op = "all_functions"
    /\ Len(modules) = 3
    /\ modules[1] # modules[2] /\ modules[2] # modules[3] /\ modules[1] # modules[3]
    /\ Len(modules[1].functions) = 2
    /\ Len(modules[2].functions) = 1
    /\ Len(modules[3].functions) = 2
    /\ Len(pret.val) = 5

DirScanOps ==
    {"from_bc_dir", "from_bc_dir_with_blacklist", "add_bc_dir", "add_bc_dir_with_blacklist"}

\* the entries of the directory scanned by the last call
ScannedEntries == read_dir(pret.arg[1]).val

\* the directory-ness of the entry cannot be determined: the entry is an
\* error, or asking for its file type is
Undetermined(entry) == entry.status = "err" \/ entry.file_type = "err"

\* the entry is known not to be a directory, has the extension looked for
\* and is not excluded
Eligible(entry) ==
    /\ entry.status = "ok"
    /\ entry.file_type = "file"
    /\ Path_extension(entry.path).kind = "some"
    /\ Path_extension(entry.path).val = pret.arg[2]
    /\ ~exclude(pret.arg[3], entry.path)

\* the names of the last n modules of the Project
LastNames(n) == [i \in 1..n |-> modules[Len(modules) - n + i].name]

\* C18: a directory scan loads exactly the entries that are not directories,
\* have the extension looked for and are not excluded, and an entry whose
\* directory-ness cannot be determined makes the scan return an error.
ScanLoadsFilesAndSurfacesErrors ==
    (pret.op \in DirScanOps /\ read_dir(pret.arg[1]).kind = "ok") =>
        /\ (\E i \in 1..Len(ScannedEntries) : Undetermined(ScannedEntries[i]))
               => pret.kind = "err"
        /\ pret.kind = "ok" =>
               LET loaded == SelectSeq(ScannedEntries, Eligible)
               IN /\ Len(loaded) <= Len(modules)
                  /\ LastNames(Len(loaded)) = [i \in 1..Len(loaded) |-> loaded[i].path]
                  /\ pret.op \in DirConstructors => Len(modules) = Len(loaded)

\* the last call is an addition to the Project
IsAdd(r) == r.op \in {"add_bc_path", "add_bc_dir", "add_bc_dir_with_blacklist"}

\* C20: every add_bc_path, add_bc_dir and add_bc_dir_with_blacklist keeps
\* the modules the Project had, in their order, as a prefix of the module
\* list; add_bc_path that succeeds appends the one module of its path; a call
\* that returns an error appends nothing.
AddStep ==
    IsAdd(pret') =>
        /\ Len(modules') >= Len(modules)
        /\ SubSeq(modules', 1, Len(modules)) = modules
        /\ pret'.kind = "err" => modules' = modules
        /\ (pret'.op = "add_bc_path" /\ pret'.kind = "ok") =>
               /\ Len(modules') = Len(modules) + 1
               /\ modules'[Len(modules')].name = pret'.arg

AddAppendsOrNothing == [][AddStep]_vars

\* C20 witness: add_bc_dir met a file that does not parse after one that
\* does, the Project holding two modules
AddDirFailedAfterGoodFile ==
    /\ pret.op = "add_bc_dir" /\ pret.kind = "err"
    /\ pret.arg[1] = "broken"
    /\ Len(modules) = 2

\* C21: save_backtracking_point and revert_to_backtracking_point leave the
\* variable environment as it was: after a revert, every key inserted before
\* the matching save and every key inserted since that save, on the path
\* abandoned, is present with the term last inserted under it.
EnvKeptStep ==
    /\ ret'.op \in {"save_backtracking_point", "revert_to_backtracking_point"}
           => varmap' = varmap
    /\ (IsRevert(ret') /\ ret'.kind = "some") =>
           \A k \in h_run'.before \cup h_run'.since :
               /\ varmap'[k].tag # "None"
               /\ varmap'[k].term = h_last[k].term

SaveAndRevertKeepEnv == [][EnvKeptStep]_vars

\* C21 witness: a revert with one key inserted before the matching save and
\* another inserted between the save and the revert
RevertWithKeysOnBothSides ==
    /\ IsRevert(ret) /\ ret.kind = "some"
    /\ h_run.before # {}
    /\ h_run.since # {}
    /\ \A k \in Keys : varmap[k].tag # "None"

\* C22: lookup_bv_var and operand_to_bv of a key return the bitvector last
\* inserted under it by add_bv_var, lookup_bool_var and operand_to_bool the
\* boolean last inserted by add_bool_var, whatever was inserted under the key
\* before and whatever calls came since; an insertion leaves the bindings of
\* the other keys as they were.
RoundTripStep ==
    /\ (/\ ret'.op \in {"lookup_bv_var", "operand_to_bv"}
        /\ ret'.arg \in Keys
        /\ h_last'[ret'.arg].sort = "BV") =>
           /\ ret'.kind = "term"
           /\ ret'.val = h_last'[ret'.arg].term
    /\ (/\ ret'.op \in {"lookup_bool_var", "operand_to_bool"}
        /\ ret'.arg \in Keys
        /\ h_last'[ret'.arg].sort = "Bool") =>
           /\ ret'.kind = "term"
           /\ ret'.val = h_last'[ret'.arg].term
    /\ ret'.op \in {"add_bv_var", "add_bool_var"} =>
           /\ \A k \in Keys \ {ret'.arg} : varmap'[k] = varmap[k]
           /\ varmap'[ret'.arg].tag # "None"
           /\ varmap'[ret'.arg].term = h_last'[ret'.arg].term

RevertCountsDownStep ==
    /\ IsRevert(ret') =>
           /\ ret'.kind = (IF backtrack_points # <<>> THEN "some" ELSE "none")
           /\ Len(backtrack_points') =
                  (IF backtrack_points # <<>> THEN Len(backtrack_points) - 1 ELSE 0)
           /\ ret'.kind = "some" =>
                  /\ h_run'.streak <= h_run'.from
                  /\ Len(backtrack_points') = h_run'.from - h_run'.streak
           /\ ret'.kind = "none" => h_run'.streak = h_run'.from
    /\ ret'.op # "save_backtracking_point" =>
           Len(backtrack_points') <= Len(backtrack_points)

RevertsReachEmptyStack == [][RevertCountsDownStep]_vars

\* C23 witness: two reverts in a row returned a pair from a stack of depth
\* two, and the third call returned absence
AbsenceAfterTwoReverts ==
    /\ IsRevert(ret) /\ ret.kind = "none"
    /\ h_run.from = 2
    /\ h_run.streak = 2
    /\ backtrack_points = <<>>

\* nothing was asserted and nothing saved since State::new
Fresh == h_explicit = << <<>> >> /\ ~h_first.set

\* C24: check of a fresh State returns true; once check has returned false
\* it returns false again after any further assert,
\* check_with_extra_constraints and save_backtracking_point, and after a
\* revert to a point saved after the failed check; it can return true only
\* after a revert that pops the scope the failed check was made in.
UnsatStaysUnsat ==
    ret.op = "check" =>
        /\ Fresh => ret.val
        /\ h_unsat > 0 => ~ret.val

\* C24 witness: check returned false, a backtrack point was saved, and check
\* returned false again
UnsatAgainUnderLaterSave ==
    /\ ret.op = "check" /\ ~ret.val
    /\ h_unsat > 0
    /\ Len(backtrack_points) >= h_unsat

\* C25: with nested backtrack points, the constraint that a revert to the
\* inner point asserts lies in the scope that the outer save opened, and a
\* revert to the outer point right after discards it; after a revert to a
\* point the solver holds the constraints in force when the point was saved
\* followed by the point's own constraint, and nothing else.
NestedRevertStep ==
    (IsRevert(ret') /\ h_saved # <<>>) =>
        /\ solver'.assertions =
               Last(h_saved).assertions \o <<Last(h_saved).constraint>>
        /\ Len(h_saved) >= 2 =>
               LET outer == h_saved[Len(h_saved) - 1]
               IN /\ Len(solver'.scopes) = Len(h_saved) - 1
                  /\ Last(solver'.scopes) = Len(outer.assertions)
                  /\ Last(solver'.scopes) < Len(solver'.assertions)
                  /\ solver'.assertions[Len(solver'.assertions)] = Last(h_saved).constraint
        /\ (IsRevert(ret) /\ ret.kind = "some" /\ h_run.streak >= 1) =>
               /\ Last(Last(h_explicit)) = Last(solver.assertions)
               /\ Len(Last(h_saved).assertions) < Len(solver.assertions)
               /\ h_dropped' # <<>>
               /\ Last(h_dropped') = Last(solver.assertions)

NestedRevertDiscardsInner == [][NestedRevertStep]_vars

\* C25 witness: a revert to the inner point and then one to the outer point;
\* the constraint of the inner point is no longer in the solver
InnerConstraintDiscarded ==
    /\ IsRevert(ret) /\ ret.kind = "some"
    /\ h_run.from = 2 /\ h_run.streak = 2
    /\ h_dropped # <<>>
    /\ Last(h_dropped) \notin Range(solver.assertions)
    /\ Len(solver.assertions) >= 2

\* the modules of the Project in another order
Reordered(p) == [i \in 1..Len(modules) |-> modules[p[i]]]

\* some module holds a concrete definition of the name with elements
HasElements(name) ==
    \E i \in Declarers(name) :
        /\ Declared(i, name).kind = "some"
        /\ Declared(i, name).val.element_types # <<>>

\* C26: get_named_struct_type_by_name is fatal for the modules in every
\* order or in none; when it is not fatal and some module holds a concrete
\* definition with a non-empty element list, the definition returned is
\* concrete with a non-empty element list, in every order.
StructLookupOrderFree ==
    IsStructLookup(pret) =>
        /\ \A p \in Permutations(1..Len(modules)) :
               LET other == get_named_struct_type_by_name(Reordered(p), pret.arg)
               IN /\ (other.kind = "panic") <=> (pret.kind = "panic")
                  /\ (other.kind # "panic" /\ HasElements(pret.arg)) =>
                         /\ other.kind = "some"
                         /\ other.val[1].kind = "some"
                         /\ other.val[1].val.element_types # <<>>
        /\ (pret.kind # "panic" /\ HasElements(pret.arg)) =>
               /\ pret.kind = "some"
               /\ pret.val[1].kind = "some"
               /\ pret.val[1].val.element_types # <<>>

\* C26 witness: an empty definition, an opaque one and one with elements, in
\* that order: the one with elements is returned, from the last module
ElementsWinFromLastModule ==
    /\ IsStructLookup(pret) /\ pret.kind = "some"
    /\ Len(modules) = 3
    /\ Declarers(pret.arg) = {1, 2, 3}
    /\ SameDef(Declared(1, pret.arg), Some(StructEmpty))
    /\ Declared(2, pret.arg).kind = "none"
    /\ Returned(Declared(3, pret.arg), modules[3])
    /\ pret.val[1].kind = "some"
    /\ pret.val[1].val.element_types # <<>>

====
